---- MODULE Spec2Model ----
(***************************************************************************)
(* docker-logger: the log classifier, the filter, the sanitizer and the    *)
(* per-container streaming workers of cmd/logger/main.go.                  *)
(*                                                                         *)
(* Strings are sequences of code points, so that strings.ToLower,          *)
(* strings.Contains, strings.Map, the ANSI regexp and strings.TrimSpace    *)
(* are computed the way the Go code computes them.                         *)
(***************************************************************************)
EXTENDS Integers, Sequences, FiniteSets

VARIABLES
    phase,        \* pure-function harness: "input", "called", or "off"
    line,         \* pure-function harness: the string handed to the function
    res,          \* pure-function harness: what the function returned
    cfg,          \* the LogConfig shared read-only by all workers
    mainPc,       \* position of monitorLogs
    started,      \* containers for which monitorLogs has started a goroutine
    network,      \* network.Containers as returned by NetworkInspect
    wg,           \* the sync.WaitGroup counter
    pc,           \* per container: position of streamContainerLogs
    inspect,      \* per container: outcome of cli.ContainerInspect
    serviceName,  \* per container: the local serviceName
    tstate,       \* per container: state of the log transport
    yielded,      \* per container: the raw lines scanner.Scan has returned
    out           \* stdout: the records and messages printed, in order

pureVars == <<phase, line, res>>
aggVars == <<mainPc, started, network, wg, pc, inspect, serviceName, tstate, yielded, out>>
vars == <<phase, line, res, cfg, mainPc, started, network, wg, pc, inspect,
          serviceName, tstate, yielded, out>>

-----------------------------------------------------------------------------
(* Bounds of the model *)

\* most vocabulary tokens concatenated into one classifier input line
MaxTokens == 3
\* most vocabulary tokens concatenated into one filter input line
MaxFilterTokens == 3
\* longest raw string handed to sanitizeLogLine
MaxRawLen == 4
\* most lines the transports deliver in one run, over all containers
MaxLines == 4

-----------------------------------------------------------------------------
(* String literals of the source, as code points *)

K_error == <<101, 114, 114, 111, 114>>  \* "error"
K_exception == <<101, 120, 99, 101, 112, 116, 105, 111, 110>>  \* "exception"
K_failed == <<102, 97, 105, 108, 101, 100>>  \* "failed"
K_failure == <<102, 97, 105, 108, 117, 114, 101>>  \* "failure"
K_panic == <<112, 97, 110, 105, 99>>  \* "panic"
K_fatal == <<102, 97, 116, 97, 108>>  \* "fatal"
K_critical == <<99, 114, 105, 116, 105, 99, 97, 108>>  \* "critical"
K_no == <<110, 111, 32>>  \* "no "
K_null == <<58, 32, 110, 117, 108, 108>>  \* ": null"
M_errorsEmpty == <<101, 114, 114, 111, 114, 115, 58, 32, 91, 93>>  \* "errors: []"
M_errorsEmptyTight == <<101, 114, 114, 111, 114, 115, 58, 91, 93>>  \* "errors:[]"
M_errorNull == <<101, 114, 114, 111, 114, 58, 32, 110, 117, 108, 108>>  \* "error: null"
M_statusFrom == <<115, 116, 97, 116, 117, 115, 32, 102, 114, 111, 109>>  \* "status from"
M_changedStatus == <<99, 104, 97, 110, 103, 101, 100, 32, 115, 116, 97, 116, 117, 115>>  \* "changed status"
K_success == <<115, 117, 99, 99, 101, 115, 115>>  \* "success"
K_warn == <<119, 97, 114, 110>>  \* "warn"
K_warning == <<119, 97, 114, 110, 105, 110, 103>>  \* "warning"
K_deprecated == <<100, 101, 112, 114, 101, 99, 97, 116, 101, 100>>  \* "deprecated"
K_timeout == <<116, 105, 109, 101, 111, 117, 116>>  \* "timeout"
K_unavailable == <<117, 110, 97, 118, 97, 105, 108, 97, 98, 108, 101>>  \* "unavailable"
K_retry == <<114, 101, 116, 114, 121>>  \* "retry"
K_info == <<105, 110, 102, 111>>  \* "info"
K_information == <<105, 110, 102, 111, 114, 109, 97, 116, 105, 111, 110>>  \* "information"
K_notice == <<110, 111, 116, 105, 99, 101>>  \* "notice"
K_debug == <<100, 101, 98, 117, 103>>  \* "debug"
K_trace == <<116, 114, 97, 99, 101>>  \* "trace"
K_verbose == <<118, 101, 114, 98, 111, 115, 101>>  \* "verbose"

-----------------------------------------------------------------------------
(* The string functions of the Go standard library the code calls *)

\* strings.Contains(s, substr); the empty substr is contained in every s
Contains(s, substr) ==
    \E i \in 0..(Len(s) - Len(substr)) : SubSeq(s, i + 1, i + Len(substr)) = substr

\* strings.ToLower on the ASCII range: 'A'..'Z' map to 'a'..'z'
ToLower(s) ==
    [i \in 1..Len(s) |-> IF s[i] >= 65 /\ s[i] <= 90 THEN s[i] + 32 ELSE s[i]]

\* unicode.IsSpace on Latin-1: \t \n \v \f \r, space, U+0085, U+00A0
IsSpace(r) == r \in {9, 10, 11, 12, 13, 32, 133, 160}

RECURSIVE TrimLeft(_)
TrimLeft(s) ==
    IF s # <<>> /\ IsSpace(Head(s)) THEN TrimLeft(Tail(s)) ELSE s

RECURSIVE TrimRight(_)
TrimRight(s) ==
    IF s # <<>> /\ IsSpace(s[Len(s)]) THEN TrimRight(SubSeq(s, 1, Len(s) - 1)) ELSE s

\* strings.TrimSpace
TrimSpace(s) == TrimRight(TrimLeft(s))

\* strings.Split(s, ","): the fields between commas, empty fields kept
RECURSIVE SplitFrom(_, _)
SplitFrom(s, cur) ==
    IF s = <<>> THEN <<cur>>
    ELSE IF Head(s) = 44 THEN <<cur>> \o SplitFrom(Tail(s), <<>>)
    ELSE SplitFrom(Tail(s), Append(cur, Head(s)))

SplitComma(s) == SplitFrom(s, <<>>)

-----------------------------------------------------------------------------
(* sanitizeLogLine *)

\* the strings.Map callback: drop r < 32 other than \t, \n, \r
DropsRune(r) == r < 32 /\ r # 9 /\ r # 10 /\ r # 13

MapDropControl(s) == SelectSeq(s, LAMBDA r : ~DropsRune(r))

\* strings.ReplaceAll(sanitized, "\u0000", "")
ReplaceAllNul(s) == SelectSeq(s, LAMBDA r : r # 0)

IsDigitOrSemi(r) == (r >= 48 /\ r <= 57) \/ r = 59
IsLetter(r) == (r >= 97 /\ r <= 122) \/ (r >= 65 /\ r <= 90)

\* index of the first element of s at or after j that is not in [0-9;], or Len(s)+1
RECURSIVE SkipParams(_, _)
SkipParams(s, j) ==
    IF j <= Len(s) /\ IsDigitOrSemi(s[j]) THEN SkipParams(s, j + 1) ELSE j

\* length of the match of \x1b\[[0-9;]*[a-zA-Z] at the start of s, 0 if none
AnsiMatchLen(s) ==
    IF Len(s) >= 3 /\ s[1] = 27 /\ s[2] = 91
    THEN LET j == SkipParams(s, 3)
         IN IF j <= Len(s) /\ IsLetter(s[j]) THEN j ELSE 0
    ELSE 0

\* ansiRegex.ReplaceAllString(sanitized, ""): leftmost non-overlapping matches
RECURSIVE ReplaceAnsi(_)
ReplaceAnsi(s) ==
    IF s = <<>> THEN <<>>
    ELSE LET n == AnsiMatchLen(s)
         IN IF n > 0 THEN ReplaceAnsi(SubSeq(s, n + 1, Len(s)))
            ELSE <<Head(s)>> \o ReplaceAnsi(Tail(s))

sanitizeLogLine(logLine) ==
    TrimSpace(ReplaceAnsi(ReplaceAllNul(MapDropControl(logLine))))

-----------------------------------------------------------------------------
(* The classifier *)

\* the errorPatterns table: (keyword, context)
errorPatterns ==
    << [keyword |-> K_error,     context |-> <<>>],
       [keyword |-> K_exception, context |-> <<>>],
       [keyword |-> K_failed,    context |-> K_failure],
       [keyword |-> K_panic,     context |-> <<>>],
       [keyword |-> K_fatal,     context |-> <<>>],
       [keyword |-> K_critical,  context |-> <<>>] >>

\* the loop over errorPatterns, from pattern i on: the first satisfied pattern returns true
RECURSIVE ErrorPatternLoop(_, _)
ErrorPatternLoop(logLine, i) ==
    IF i > Len(errorPatterns) THEN FALSE
    ELSE LET pattern == errorPatterns[i]
         IN IF pattern.context = <<>>
            THEN IF /\ Contains(logLine, pattern.keyword)
                    /\ ~Contains(logLine, K_no \o pattern.keyword)
                    /\ ~Contains(logLine, pattern.keyword \o K_null)
                 THEN TRUE
                 ELSE ErrorPatternLoop(logLine, i + 1)
            ELSE IF /\ Contains(logLine, pattern.keyword)
                    /\ Contains(logLine, pattern.context)
                 THEN TRUE
                 ELSE ErrorPatternLoop(logLine, i + 1)

\* a plausible slip: the context of "failed" is ignored
isErrorMessage_noContext(logLine) ==
    IF \/ Contains(logLine, M_errorsEmpty)
       \/ Contains(logLine, M_errorsEmptyTight)
       \/ Contains(logLine, M_errorNull)
    THEN FALSE
    ELSE \E i \in 1..Len(errorPatterns) :
            /\ Contains(logLine, errorPatterns[i].keyword)
            /\ ~Contains(logLine, K_no \o errorPatterns[i].keyword)
            /\ ~Contains(logLine, errorPatterns[i].keyword \o K_null)

isErrorMessage(logLine) ==
    IF \/ Contains(logLine, M_errorsEmpty)
       \/ Contains(logLine, M_errorsEmptyTight)
       \/ Contains(logLine, M_errorNull)
    THEN FALSE
    ELSE ErrorPatternLoop(logLine, 1)

warningKeywords == <<K_warn, K_warning, K_deprecated, K_timeout, K_unavailable>>

\* a plausible slip: the retry rule and the keyword loop run before the short-circuit
isWarningMessage_lateSkip(logLine) ==
    IF /\ Contains(logLine, K_retry)
       /\ \/ Contains(logLine, K_failed)
          \/ Contains(logLine, K_error)
          \/ Contains(logLine, K_timeout)
    THEN TRUE
    ELSE IF \/ Contains(logLine, M_statusFrom)
            \/ Contains(logLine, M_changedStatus)
            \/ Contains(logLine, K_success)
         THEN FALSE
         ELSE \E i \in 1..Len(warningKeywords) : Contains(logLine, warningKeywords[i])

isWarningMessage(logLine) ==
    IF \/ Contains(logLine, M_statusFrom)
       \/ Contains(logLine, M_changedStatus)
       \/ Contains(logLine, K_success)
    THEN FALSE
    ELSE IF /\ Contains(logLine, K_retry)
            /\ \/ Contains(logLine, K_failed)
               \/ Contains(logLine, K_error)
               \/ Contains(logLine, K_timeout)
         THEN TRUE
         ELSE \E i \in 1..Len(warningKeywords) : Contains(logLine, warningKeywords[i])

infoKeywords == <<K_info, K_information, K_notice, K_success>>

isInfoMessage(logLine) ==
    \E i \in 1..Len(infoKeywords) : Contains(logLine, infoKeywords[i])

debugKeywords == <<K_debug, K_trace, K_verbose>>

isDebugMessage(logLine) ==
    \E i \in 1..Len(debugKeywords) : Contains(logLine, debugKeywords[i])

-----------------------------------------------------------------------------
(* The filter *)

\* the keywords shouldLogMessage tests: the comma-separated fields of
\* config.customWords, lower-cased and trimmed; none when customWords is ""
customKeywords(config) ==
    IF config.customWords = <<>> THEN <<>>
    ELSE LET fields == SplitComma(config.customWords)
         IN [i \in 1..Len(fields) |-> TrimSpace(ToLower(fields[i]))]

\* a plausible slip: the level checks are made on the first matching level only
shouldLogMessage_firstLevel(logLine, config) ==
    IF config.showAll THEN TRUE
    ELSE IF \E i \in 1..Len(customKeywords(config)) :
               Contains(logLine, customKeywords(config)[i])
    THEN TRUE
    ELSE IF isErrorMessage(logLine) THEN config.showErrors
    ELSE IF isWarningMessage(logLine) THEN config.showWarns
    ELSE IF isInfoMessage(logLine) THEN config.showInfo
    ELSE IF isDebugMessage(logLine) THEN config.showDebug
    ELSE FALSE

shouldLogMessage(logLine, config) ==
    IF config.showAll THEN TRUE
    ELSE IF \E i \in 1..Len(customKeywords(config)) :
               Contains(logLine, customKeywords(config)[i])
    THEN TRUE
    ELSE IF config.showErrors /\ isErrorMessage(logLine) THEN TRUE
    ELSE IF config.showWarns /\ isWarningMessage(logLine) THEN TRUE
    ELSE IF config.showInfo /\ isInfoMessage(logLine) THEN TRUE
    ELSE IF config.showDebug /\ isDebugMessage(logLine) THEN TRUE
    ELSE FALSE

\* a plausible slip: the container name is compared without lower-casing it
matchesServiceName_caseSensitive(containerName, serviceFilters) ==
    \/ Len(serviceFilters) = 0
    \/ \E i \in 1..Len(serviceFilters) :
          Contains(containerName, ToLower(serviceFilters[i]))

matchesServiceName(containerName, serviceFilters) ==
    IF Len(serviceFilters) = 0 THEN TRUE
    ELSE LET containerNameLower == ToLower(containerName)
         IN \E i \in 1..Len(serviceFilters) :
               Contains(containerNameLower, ToLower(serviceFilters[i]))

-----------------------------------------------------------------------------
(* The LogConfig values and the containers of the model *)

\* main with no flags: no level is selected, so showAll is set (line 56)
DefaultConfig ==
    [showAll |-> TRUE, showErrors |-> FALSE, showWarns |-> FALSE, showInfo |-> FALSE,
     showDebug |-> FALSE, customWords |-> <<>>, serviceNames |-> <<>>]

\* the containers attached to the network
ContainerIDs == {"c1", "c2"}

\* EndpointResource.Name of each container: "API-gw" and "db"
containerName ==
    [c \in ContainerIDs |-> IF c = "c1" THEN <<65, 80, 73, 45, 103, 119>> ELSE <<100, 98>>]

\* whether Config.Labels holds "com.docker.compose.service"
hasComposeLabel == [c \in ContainerIDs |-> c = "c1"]

\* the value of the "com.docker.compose.service" label: "web"
composeLabel == [c \in ContainerIDs |-> IF c = "c1" THEN <<119, 101, 98>> ELSE <<>>]

\* the return statements of streamContainerLogs
ReturnSites == {"returnInspectErr", "returnFiltered", "returnLogsErr", "returnEnd"}

\* the state of the aggregator while the pure-function harness runs
AggOff ==
    /\ mainPc = "off"
    /\ started = {}
    /\ network = {}
    /\ wg = 0
    /\ pc = [c \in ContainerIDs |-> "idle"]
    /\ inspect = [c \in ContainerIDs |-> "pending"]
    /\ serviceName = [c \in ContainerIDs |-> <<>>]
    /\ tstate = [c \in ContainerIDs |-> "none"]
    /\ yielded = [c \in ContainerIDs |-> <<>>]
    /\ out = <<>>

-----------------------------------------------------------------------------
(* Inputs of the pure-function harness *)

RECURSIVE Flatten(_)
Flatten(tokens) ==
    IF tokens = <<>> THEN <<>> ELSE Head(tokens) \o Flatten(Tail(tokens))

\* the lines made of at most n tokens of the vocabulary V
LinesOver(V, n) == {Flatten(ts) : ts \in UNION {[1..k -> V] : k \in 0..n}}

K_space == <<32>>  \* " "
K_x == <<120>>  \* "x"
K_auth == <<97, 117, 116, 104>>  \* "auth"

ErrorVocabulary ==
    {K_error, K_exception, K_failed, K_failure, K_panic, K_fatal, K_critical,
     K_no, K_null, M_errorsEmpty, M_errorsEmptyTight, K_space, K_x}

WarningVocabulary ==
    {M_statusFrom, M_changedStatus, K_success, K_warn, K_warning, K_deprecated,
     K_timeout, K_unavailable, K_retry, K_failed, K_error, K_space}

FilterVocabulary ==
    {K_error, K_warn, K_info, K_debug, K_success, K_no, K_auth}

\* --filter "Auth, db"
CustomAuthDb == <<65, 117, 116, 104, 44, 32, 100, 98>>

FilterConfigs ==
    [showAll : BOOLEAN, showErrors : BOOLEAN, showWarns : BOOLEAN, showInfo : BOOLEAN,
     showDebug : BOOLEAN, customWords : {<<>>, CustomAuthDb}, serviceNames : {<<>>}]

\* NUL, \t, ESC, space, '3', ';', '[', 'a', 'm'
SanitizeAlphabet == {0, 9, 27, 32, 51, 59, 91, 97, 109}

RawStrings == UNION {[1..n -> SanitizeAlphabet] : n \in 0..MaxRawLen}

-----------------------------------------------------------------------------
(* isErrorMessage on every line of the error vocabulary *)

InitError ==
    /\ phase = "input"
    /\ line \in LinesOver(ErrorVocabulary, MaxTokens)
    /\ res = FALSE
    /\ cfg = DefaultConfig
    /\ AggOff

CallIsErrorMessage ==
    /\ phase = "input"
    /\ phase' = "called"
    /\ res' = isErrorMessage(line)
    /\ UNCHANGED <<line, cfg, aggVars>>

NextError == CallIsErrorMessage

SpecError == InitError /\ [][NextError]_vars

(* isWarningMessage on every line of the warning vocabulary *)

InitWarning ==
    /\ phase = "input"
    /\ line \in LinesOver(WarningVocabulary, MaxTokens)
    /\ res = FALSE
    /\ cfg = DefaultConfig
    /\ AggOff

CallIsWarningMessage ==
    /\ phase = "input"
    /\ phase' = "called"
    /\ res' = isWarningMessage(line)
    /\ UNCHANGED <<line, cfg, aggVars>>

NextWarning == CallIsWarningMessage

SpecWarning == InitWarning /\ [][NextWarning]_vars

(* shouldLogMessage on every line of the filter vocabulary, under every LogConfig *)

InitFilter ==
    /\ phase = "input"
    /\ line \in LinesOver(FilterVocabulary, MaxFilterTokens)
    /\ res = FALSE
    /\ cfg \in FilterConfigs
    /\ AggOff

CallShouldLogMessage ==
    /\ phase = "input"
    /\ phase' = "called"
    /\ res' = shouldLogMessage(line, cfg)
    /\ UNCHANGED <<line, cfg, aggVars>>

NextFilter == CallShouldLogMessage

SpecFilter == InitFilter /\ [][NextFilter]_vars

(* sanitizeLogLine on every raw string over the sanitizer alphabet *)

InitSanitize ==
    /\ phase = "input"
    /\ line \in RawStrings
    /\ res = <<>>
    /\ cfg = DefaultConfig
    /\ AggOff

CallSanitizeLogLine ==
    /\ phase = "input"
    /\ phase' = "called"
    /\ res' = sanitizeLogLine(line)
    /\ UNCHANGED <<line, cfg, aggVars>>

NextSanitize == CallSanitizeLogLine

SpecSanitize == InitSanitize /\ [][NextSanitize]_vars

-----------------------------------------------------------------------------
(* monitorLogs and the streamContainerLogs goroutines *)

\* the raw lines a transport may deliver: "", "\t ", "ERROR", ESC "[m"
RawLines == {<<>>, <<9, 32>>, <<69, 82, 82, 79, 82>>, <<27, 91, 109>>}

\* --service "Api"
ServiceApi == <<65, 112, 105>>

\* the LogConfig values of the runs: no flags; --errors --service Api; --all --service Api
AggConfigs ==
    { DefaultConfig,
      [DefaultConfig EXCEPT !.showAll = FALSE, !.showErrors = TRUE,
                            !.serviceNames = <<ServiceApi>>],
      [DefaultConfig EXCEPT !.serviceNames = <<ServiceApi>>] }

Init ==
    /\ phase = "off"
    /\ line = <<>>
    /\ res = FALSE
    /\ cfg \in AggConfigs
    /\ mainPc = "networkInspect"
    /\ started = {}
    /\ network = {}
    /\ wg = 0
    /\ pc = [c \in ContainerIDs |-> "idle"]
    /\ inspect = [c \in ContainerIDs |-> "pending"]
    /\ serviceName = [c \in ContainerIDs |-> <<>>]
    /\ tstate = [c \in ContainerIDs |-> "none"]
    /\ yielded = [c \in ContainerIDs |-> <<>>]
    /\ out = <<>>

\* one Printf call on stdout
Printed(kind, src, name, text, color) ==
    [kind |-> kind, src |-> src, name |-> name, text |-> text, color |-> color]

\* the style chosen for a record (lines 197-205)
logColor(logLineLower) ==
    IF isErrorMessage(logLineLower) THEN "errorColor"
    ELSE IF isWarningMessage(logLineLower) THEN "warningColor"
    ELSE "normalColor"

\* lines read so far, over all containers
TotalYielded ==
    LET RECURSIVE Sum(_)
        Sum(S) == IF S = {} THEN 0
                  ELSE LET c == CHOOSE c \in S : TRUE
                       IN Len(yielded[c]) + Sum(S \ {c})
    IN Sum(ContainerIDs)

\* cli.NetworkInspect and the checks that follow it: an error returns the
\* error, an empty network returns nil, otherwise the goroutines are started
NetworkInspect ==
    /\ mainPc = "networkInspect"
    /\ \E ok \in BOOLEAN, containers \in SUBSET ContainerIDs :
          IF ~ok
          THEN /\ mainPc' = "returnedErr"
               /\ UNCHANGED <<network, out>>
          ELSE IF containers = {}
          THEN /\ mainPc' = "returnedNil"
               /\ out' = Append(out, Printed("noContainers", "main", <<>>, <<>>, "none"))
               /\ UNCHANGED network
          ELSE /\ mainPc' = "spawn"
               /\ network' = containers
               /\ out' = Append(out, Printed("monitoring", "main", <<>>, <<>>, "none"))
    /\ UNCHANGED <<pureVars, cfg, started, wg, pc, inspect, serviceName, tstate, yielded>>

\* one iteration of the range loop: wg.Add(1) and the go statement
Spawn(c) ==
    /\ mainPc = "spawn"
    /\ c \in network \ started
    /\ wg' = wg + 1
    /\ started' = started \cup {c}
    /\ pc' = [pc EXCEPT ![c] = "inspect"]
    /\ mainPc' = IF started' = network THEN "wait" ELSE "spawn"
    /\ UNCHANGED <<pureVars, cfg, network, inspect, serviceName, tstate, yielded, out>>

\* a plausible slip: no wg.Wait, as in internal/log MonitorLogs
WgWait_noWait ==
    /\ mainPc = "wait"
    /\ mainPc' = "returnedNil"
    /\ UNCHANGED <<pureVars, cfg, started, network, wg, pc, inspect, serviceName,
                   tstate, yielded, out>>

\* wg.Wait() and return nil
WgWait ==
    /\ mainPc = "wait"
    /\ wg = 0
    /\ mainPc' = "returnedNil"
    /\ UNCHANGED <<pureVars, cfg, started, network, wg, pc, inspect, serviceName,
                   tstate, yielded, out>>

\* a plausible slip: a failed inspect falls back to the container name and goes on
ContainerInspect_fallback(c) ==
    /\ pc[c] = "inspect"
    /\ \E ok \in BOOLEAN :
          /\ inspect' = [inspect EXCEPT ![c] = IF ok THEN "ok" ELSE "err"]
          /\ serviceName' = [serviceName EXCEPT ![c] =
                IF ok /\ hasComposeLabel[c] THEN composeLabel[c] ELSE containerName[c]]
          /\ pc' = [pc EXCEPT ![c] = "gate"]
          /\ UNCHANGED <<wg, out>>
    /\ UNCHANGED <<pureVars, cfg, mainPc, started, network, tstate, yielded>>

\* cli.ContainerInspect: on an error the worker prints and returns (and the
\* deferred wg.Done runs); otherwise serviceName is the compose label, or the
\* container name when there is no such label
ContainerInspect(c) ==
    /\ pc[c] = "inspect"
    /\ \E ok \in BOOLEAN :
          IF ~ok
          THEN /\ inspect' = [inspect EXCEPT ![c] = "err"]
               /\ out' = Append(out, Printed("inspectErr", c, containerName[c], <<>>, "none"))
               /\ pc' = [pc EXCEPT ![c] = "returnInspectErr"]
               /\ wg' = wg - 1
               /\ UNCHANGED serviceName
          ELSE /\ inspect' = [inspect EXCEPT ![c] = "ok"]
               /\ serviceName' = [serviceName EXCEPT ![c] =
                     IF hasComposeLabel[c] THEN composeLabel[c] ELSE containerName[c]]
               /\ pc' = [pc EXCEPT ![c] = "gate"]
               /\ UNCHANGED <<wg, out>>
    /\ UNCHANGED <<pureVars, cfg, mainPc, started, network, tstate, yielded>>

\* the service filter on the container name: a container that does not match returns
ServiceGate(c) ==
    /\ pc[c] = "gate"
    /\ IF matchesServiceName(containerName[c], cfg.serviceNames)
       THEN /\ pc' = [pc EXCEPT ![c] = "logs"]
            /\ UNCHANGED wg
       ELSE /\ pc' = [pc EXCEPT ![c] = "returnFiltered"]
            /\ wg' = wg - 1
    /\ UNCHANGED <<pureVars, cfg, mainPc, started, network, inspect, serviceName,
                   tstate, yielded, out>>

\* a plausible slip: a failed ContainerLogs ends the whole run with an error
ContainerLogs_abortRun(c) ==
    /\ pc[c] = "logs"
    /\ \E ok \in BOOLEAN :
          IF ~ok
          THEN /\ out' = Append(out, Printed("logsErr", c, serviceName[c], <<>>, "none"))
               /\ pc' = [pc EXCEPT ![c] = "returnLogsErr"]
               /\ wg' = wg - 1
               /\ mainPc' = "returnedErr"
               /\ UNCHANGED tstate
          ELSE /\ tstate' = [tstate EXCEPT ![c] = "open"]
               /\ pc' = [pc EXCEPT ![c] = "scan"]
               /\ UNCHANGED <<wg, out, mainPc>>
    /\ UNCHANGED <<pureVars, cfg, started, network, inspect, serviceName, yielded>>

\* cli.ContainerLogs: on an error the worker prints and returns; otherwise the
\* transport is open and the scanner loop starts
ContainerLogs(c) ==
    /\ pc[c] = "logs"
    /\ \E ok \in BOOLEAN :
          IF ~ok
          THEN /\ out' = Append(out, Printed("logsErr", c, serviceName[c], <<>>, "none"))
               /\ pc' = [pc EXCEPT ![c] = "returnLogsErr"]
               /\ wg' = wg - 1
               /\ UNCHANGED tstate
          ELSE /\ tstate' = [tstate EXCEPT ![c] = "open"]
               /\ pc' = [pc EXCEPT ![c] = "scan"]
               /\ UNCHANGED <<wg, out>>
    /\ UNCHANGED <<pureVars, cfg, mainPc, started, network, inspect, serviceName, yielded>>

\* a plausible slip: the second emptiness check, after sanitizeLogLine, is missing
ProcessLine_noEmptyCheck(c, raw, stdout) ==
    IF raw = <<>> THEN stdout
    ELSE LET logLine == sanitizeLogLine(raw)
             logLineLower == ToLower(logLine)
         IN IF ~shouldLogMessage(logLineLower, cfg) THEN stdout
            ELSE Append(stdout,
                        Printed("log", c, serviceName[c], logLine, logColor(logLineLower)))

\* a plausible slip: the record is put in front of what was printed before
ProcessLine_prepend(c, raw, stdout) ==
    IF raw = <<>> THEN stdout
    ELSE LET logLine == sanitizeLogLine(raw)
             logLineLower == ToLower(logLine)
         IN IF logLine = <<>> THEN stdout
            ELSE IF ~shouldLogMessage(logLineLower, cfg) THEN stdout
            ELSE <<Printed("log", c, serviceName[c], logLine, logColor(logLineLower))>>
                 \o stdout

\* the body of the scanner loop for one line: stdout after it
ProcessLine(c, raw, stdout) ==
    IF raw = <<>> THEN stdout
    ELSE LET logLine == sanitizeLogLine(raw)
             logLineLower == ToLower(logLine)
         IN IF logLine = <<>> THEN stdout
            ELSE IF ~shouldLogMessage(logLineLower, cfg) THEN stdout
            ELSE Append(stdout,
                        Printed("log", c, serviceName[c], logLine, logColor(logLineLower)))

\* scanner.Scan returns true with the next line of the transport
ScanLine(c) ==
    /\ pc[c] = "scan"
    /\ tstate[c] = "open"
    /\ TotalYielded < MaxLines
    /\ \E raw \in RawLines :
          /\ yielded' = [yielded EXCEPT ![c] = Append(yielded[c], raw)]
          /\ out' = ProcessLine(c, raw, out)
    /\ UNCHANGED <<pureVars, cfg, mainPc, started, network, wg, pc, inspect,
                   serviceName, tstate>>

\* the transport of c ends: the daemon closes the stream, or the read fails
TransportEnd(c) ==
    /\ pc[c] = "scan"
    /\ tstate[c] = "open"
    /\ \E how \in {"closed", "failed"} : tstate' = [tstate EXCEPT ![c] = how]
    /\ UNCHANGED <<pureVars, cfg, mainPc, started, network, wg, pc, inspect,
                   serviceName, yielded, out>>

\* scanner.Scan returns false: scanner.Err is reported if non-nil, the worker
\* returns, logs.Close and wg.Done run
ScanEnd(c) ==
    /\ pc[c] = "scan"
    /\ tstate[c] \in {"closed", "failed"}
    /\ out' = IF tstate[c] = "failed"
              THEN Append(out, Printed("readErr", c, serviceName[c], <<>>, "none"))
              ELSE out
    /\ pc' = [pc EXCEPT ![c] = "returnEnd"]
    /\ wg' = wg - 1
    /\ UNCHANGED <<pureVars, cfg, mainPc, started, network, inspect, serviceName,
                   tstate, yielded>>

Worker(c) ==
    \/ ContainerInspect(c)
    \/ ServiceGate(c)
    \/ ContainerLogs(c)
    \/ ScanLine(c)
    \/ TransportEnd(c)
    \/ ScanEnd(c)

Next ==
    \/ NetworkInspect
    \/ \E c \in ContainerIDs : Spawn(c)
    \/ WgWait
    \/ \E c \in ContainerIDs : Worker(c)

Spec == Init /\ [][Next]_vars

\* the Go scheduler runs every runnable goroutine, and the daemon answers every
\* request; when a transport delivers a line or ends is up to the container
Fairness ==
    /\ WF_vars(NetworkInspect)
    /\ WF_vars(WgWait)
    /\ \A c \in ContainerIDs :
          /\ WF_vars(Spawn(c))
          /\ WF_vars(ContainerInspect(c))
          /\ WF_vars(ServiceGate(c))
          /\ WF_vars(ContainerLogs(c))
          /\ WF_vars(ScanEnd(c))

FairSpec == Spec /\ Fairness

-----------------------------------------------------------------------------
(* Claims about the workers and monitorLogs *)

Returned(c) == pc[c] \in ReturnSites

\* the "log" records of container c on stdout, in the order printed
RecordsOf(c) == SelectSeq(out, LAMBDA r : r.kind = "log" /\ r.src = c)

\* the worker of c has reached the call that opens the transport
Monitored(c) == pc[c] \in {"logs", "scan", "returnLogsErr", "returnEnd"}

(* C1: per-source failure isolation *)

\* the step is the worker of c failing to open its transport, or finding that
\* the read failed
FailureStep(c) ==
    \/ pc[c] = "logs" /\ pc'[c] = "returnLogsErr"
    \/ pc[c] = "scan" /\ tstate[c] = "failed" /\ pc'[c] = "returnEnd"

\* C1: a worker whose transport fails to open or fails mid-read prints one
\* message that names its source and returns; the step changes neither the
\* position nor the transport of any other worker, nor the position of
\* monitorLogs, and monitorLogs never returns an error once workers run.
C1_FailureIsolation ==
    /\ [][\A c \in ContainerIDs :
            FailureStep(c) =>
               /\ Len(out') = Len(out) + 1
               /\ out'[Len(out')].kind \in {"logsErr", "readErr"}
               /\ out'[Len(out')].src = c
               /\ out'[Len(out')].name = serviceName[c]
               /\ SubSeq(out', 1, Len(out)) = out
               /\ mainPc' = mainPc
               /\ \A d \in ContainerIDs \ {c} :
                     /\ pc'[d] = pc[d]
                     /\ tstate'[d] = tstate[d]
                     /\ yielded'[d] = yielded[d]]_vars
    /\ [](started # {} => mainPc # "returnedErr")

\* a worker has failed, and after its message a sibling has printed a record
C1_Witness ==
    \E i, j \in 1..Len(out) :
        /\ i < j
        /\ out[i].kind \in {"logsErr", "readErr"}
        /\ out[j].kind = "log"
        /\ out[j].src # out[i].src

(* C2: monitorLogs returns only after every worker has returned *)

\* C2: after a lookup that found containers, monitorLogs has returned only in
\* states where every worker it started has returned, and it returned nil; and
\* if from some point on no transport is open, monitorLogs eventually returns.
C2_BlocksUntilAllReturned ==
    /\ [](network # {} /\ mainPc \in {"returnedNil", "returnedErr"} =>
             /\ mainPc = "returnedNil"
             /\ started = network
             /\ \A c \in started : Returned(c))
    /\ (<>[](\A c \in ContainerIDs : tstate[c] # "open")) =>
          <>(mainPc \in {"returnedNil", "returnedErr"})

\* monitorLogs has returned nil after two workers read to the end of their transports
C2_Witness ==
    /\ mainPc = "returnedNil"
    /\ Cardinality(network) = 2
    /\ \A c \in network : pc[c] = "returnEnd"

(* C3: a failed label lookup *)

\* C3 as stated: a worker whose ContainerInspect failed does not return because
\* of it: it goes on with the container name as its display name.
C3_LookupFailureNonFatal ==
    \A c \in ContainerIDs :
        inspect[c] = "err" =>
            /\ pc[c] # "returnInspectErr"
            /\ serviceName[c] = containerName[c]

\* C3 as amended: a worker whose ContainerInspect failed prints one message
\* naming the container and returns without opening the transport or printing
\* a record, and no other worker is affected by it; the fall-back to the
\* container name is taken when the inspect succeeded and the container has no
\* compose service label.
C3_LookupFailureEndsWorker ==
    \A c \in ContainerIDs :
        /\ inspect[c] = "err" =>
              /\ pc[c] = "returnInspectErr"
              /\ tstate[c] = "none"
              /\ yielded[c] = <<>>
              /\ RecordsOf(c) = <<>>
              /\ Len(SelectSeq(out, LAMBDA r : r.kind = "inspectErr" /\ r.src = c
                                                /\ r.name = containerName[c])) = 1
        /\ inspect[c] = "ok" =>
              /\ pc[c] # "returnInspectErr"
              /\ serviceName[c] =
                    IF hasComposeLabel[c] THEN composeLabel[c] ELSE containerName[c]

\* one worker's inspect failed; its sibling has no compose label and prints
\* records under its container name
C3_Witness ==
    \E c, d \in ContainerIDs :
        /\ inspect[c] = "err"
        /\ inspect[d] = "ok"
        /\ ~hasComposeLabel[d]
        /\ RecordsOf(d) # <<>>
        /\ RecordsOf(d)[1].name = containerName[d]

(* C6: no blank record *)

\* C6: every record on stdout carries a non-empty text, which is the sanitized
\* form of a line its source delivered.
C6_NoBlankRecord ==
    \A i \in 1..Len(out) :
        out[i].kind = "log" =>
            /\ out[i].text # <<>>
            /\ \E k \in 1..Len(yielded[out[i].src]) :
                  out[i].text = sanitizeLogLine(yielded[out[i].src][k])

\* under show-all a worker read a non-empty line that sanitizes to the empty
\* string, and went on to print a record
C6_Witness ==
    \E c \in ContainerIDs :
        /\ cfg.showAll
        /\ \E k \in 1..Len(yielded[c]) :
              yielded[c][k] # <<>> /\ sanitizeLogLine(yielded[c][k]) = <<>>
        /\ RecordsOf(c) # <<>>

(* C7: the source-name gate *)

\* the name contains a configured filter, compared case-insensitively, or
\* there is no filter
PassesSourceGate(c) ==
    \/ cfg.serviceNames = <<>>
    \/ \E i \in 1..Len(cfg.serviceNames) :
          Contains(ToLower(containerName[c]), ToLower(cfg.serviceNames[i]))

GateDecided(c) == pc[c] \notin {"idle", "inspect", "gate"}

RECURSIVE ExpectedTexts(_)
ExpectedTexts(raws) ==
    IF raws = <<>> THEN <<>>
    ELSE LET text == sanitizeLogLine(Head(raws))
         IN IF text # <<>> /\ shouldLogMessage(ToLower(text), cfg)
            THEN <<text>> \o ExpectedTexts(Tail(raws))
            ELSE ExpectedTexts(Tail(raws))

\* C10: the records of a source appear on stdout in the order in which its
\* transport delivered their lines, each passing line exactly once, each as
\* one Printf.
C10_OrderWithinSource ==
    \A c \in ContainerIDs :
        LET recs == RecordsOf(c)
        IN [i \in 1..Len(recs) |-> recs[i].text] = ExpectedTexts(yielded[c])

\* a source printed two different records, in the order read, with a record
\* of the other source between them
C10_Witness ==
    \E i, j, k \in 1..Len(out) :
        /\ i < j /\ j < k
        /\ out[i].kind = "log" /\ out[j].kind = "log" /\ out[k].kind = "log"
        /\ out[i].src = out[k].src
        /\ out[j].src # out[i].src
        /\ out[i].text # out[k].text

-----------------------------------------------------------------------------
(* C8: the error detection rule *)

SimpleErrorKeywords == {K_error, K_exception, K_panic, K_fatal, K_critical}

HasNoErrorMarker(l) ==
    \/ Contains(l, M_errorsEmpty)
    \/ Contains(l, M_errorsEmptyTight)
    \/ Contains(l, M_errorNull)

ErrorRule(l) ==
    /\ ~HasNoErrorMarker(l)
    /\ \/ \E k \in SimpleErrorKeywords :
             /\ Contains(l, k)
             /\ ~Contains(l, K_no \o k)
             /\ ~Contains(l, k \o K_null)
       \/ Contains(l, K_failed) /\ Contains(l, K_failure)

\* C8: isErrorMessage returns true iff the line has no "no error" marker and
\* either an unsuppressed simple keyword or both "failed" and "failure"; a line
\* with "failed", without "failure" and without another error keyword is no error.
C8_ErrorRule ==
    phase = "called" =>
        /\ res <=> ErrorRule(line)
        /\ ( /\ Contains(line, K_failed)
             /\ ~Contains(line, K_failure)
             /\ \A k \in SimpleErrorKeywords : ~Contains(line, k) ) => ~res

C8_Witness ==
    /\ phase = "called"
    /\ Contains(line, K_failed)
    /\ ~Contains(line, K_failure)
    /\ \A k \in SimpleErrorKeywords : ~Contains(line, k)
    /\ res = FALSE

(* C9: the warning detection rule *)

WarningSkip(l) ==
    \/ Contains(l, M_statusFrom)
    \/ Contains(l, M_changedStatus)
    \/ Contains(l, K_success)

WarningRule(l) ==
    \/ \E k \in {K_warn, K_warning, K_deprecated, K_timeout, K_unavailable} : Contains(l, k)
    \/ /\ Contains(l, K_retry)
       /\ \E k \in {K_failed, K_error, K_timeout} : Contains(l, k)

\* C9: isWarningMessage returns false on a line with "status from", "changed
\* status" or "success", whatever else the line holds; on any other line it
\* returns true iff the line has a warning keyword, or "retry" with one of
\* failed, error, timeout.
C9_WarningRule ==
    phase = "called" =>
        /\ WarningSkip(line) => ~res
        /\ ~WarningSkip(line) => (res <=> WarningRule(line))
        /\ ( /\ Contains(line, K_retry)
             /\ \A k \in {K_failed, K_error, K_timeout, K_warn, K_deprecated, K_unavailable} :
                   ~Contains(line, k) ) => ~res

C9_Witness ==
    /\ phase = "called"
    /\ Contains(line, K_success)
    /\ Contains(line, K_retry)
    /\ Contains(line, K_error)
    /\ res = FALSE

(* C4: the severity gate of the filter *)

Severities == {"Error", "Warning", "Info", "Debug"}

Detects(sev, l) ==
    CASE sev = "Error" -> isErrorMessage(l)
      [] sev = "Warning" -> isWarningMessage(l)
      [] sev = "Info" -> isInfoMessage(l)
      [] sev = "Debug" -> isDebugMessage(l)

\* first match wins, in the order Error > Warning > Info > Debug > None
classify(l) ==
    IF isErrorMessage(l) THEN "Error"
    ELSE IF isWarningMessage(l) THEN "Warning"
    ELSE IF isInfoMessage(l) THEN "Info"
    ELSE IF isDebugMessage(l) THEN "Debug"
    ELSE "None"

EnabledSeverities(config) ==
    {sev \in Severities :
        CASE sev = "Error" -> config.showErrors
          [] sev = "Warning" -> config.showWarns
          [] sev = "Info" -> config.showInfo
          [] sev = "Debug" -> config.showDebug}

SeverityGateApplies ==
    /\ phase = "called"
    /\ ~cfg.showAll
    /\ \A i \in 1..Len(customKeywords(cfg)) : ~Contains(line, customKeywords(cfg)[i])

\* C4 as stated: with show-all off and no custom keyword in the line,
\* shouldLogMessage returns true iff the first-match-wins severity of the line
\* is an enabled severity.
C4_SeverityGate ==
    SeverityGateApplies => (res <=> classify(line) \in EnabledSeverities(cfg))

\* C4 as amended: with show-all off and no custom keyword in the line,
\* shouldLogMessage returns true iff the detector of at least one enabled
\* severity matches the line, whether or not a higher severity matches too.
C4_AnyEnabledDetector ==
    SeverityGateApplies => (res <=> \E sev \in EnabledSeverities(cfg) : Detects(sev, line))

C4_Witness ==
    /\ SeverityGateApplies
    /\ classify(line) = "Error"
    /\ isInfoMessage(line)
    /\ EnabledSeverities(cfg) = {"Info"}
    /\ res = TRUE

(* C5: sanitizeLogLine on strings of control characters, escapes and whitespace *)

\* s is a concatenation of control characters (< 32), whitespace and ANSI
\* escape sequences ESC '[' [0-9;]* letter
RECURSIVE OnlyNoise(_)
OnlyNoise(s) ==
    \/ s = <<>>
    \/ /\ s # <<>>
       /\ \/ (Head(s) < 32 \/ IsSpace(Head(s))) /\ OnlyNoise(Tail(s))
          \/ AnsiMatchLen(s) > 0 /\ OnlyNoise(SubSeq(s, AnsiMatchLen(s) + 1, Len(s)))

\* C5: sanitizeLogLine returns the empty string for every string that consists
\* only of control characters, ANSI escape sequences and whitespace.
C5_NoiseSanitizesToEmpty ==
    (phase = "called" /\ OnlyNoise(line)) => res = <<>>

====
